---- MODULE Spec2Model ----
(***************************************************************************)
(* Model of src/script.js (csv.dimy.dev, a frontend-only CSV cleaner).     *)
(*                                                                         *)
(* A string is a sequence of code points; a code point is written as a     *)
(* one-token TLA+ string: "a", "A", "1", "_", "-" stand for themselves,    *)
(* "SP" is U+0020, "LF" U+000A, "CR" U+000D, "BOM" U+FEFF, "SOH" U+0001    *)
(* (the separator of the deduplication key) and "KELVIN" U+212A (a code    *)
(* point outside ASCII whose lower case is the ASCII letter k).            *)
(* A row is a sequence of strings, a grid a sequence of rows.              *)
(***************************************************************************)
EXTENDS Integers, Sequences, FiniteSets, TLC

(* ------------------------------ bounds -------------------------------- *)

\* rows of an uploaded grid drawn for the cleaning engine
MaxRows == 3
\* code points of a header cell drawn for normalizeHeaderValue
MaxHeaderLen == 3
\* bytes of a buffer drawn for the encoding resolver
MaxBytes == 3
\* upload runs (handleFileChange) awaiting their read or parse at one time
MaxUploads == 2
\* deferred clean callbacks (window.setTimeout) pending at one time
MaxTimers == 1

(* ------------------------- nullable values ---------------------------- *)

\* a JavaScript null field is the empty tuple, a set field a 1-tuple
Null == <<>>
Some(x) == <<x>>
IsNull(v) == v = <<>>
Val(v) == v[1]

(* --------------------------- string helpers --------------------------- *)

\* ECMAScript WhiteSpace and LineTerminator code points (String.prototype.trim
\* and the regular expression class \s): U+FEFF is one of them
IsWhite(c) == c \in {"SP", "LF", "CR", "BOM"}

RECURSIVE TrimStart(_)
TrimStart(s) ==
  IF s # <<>> /\ IsWhite(Head(s)) THEN TrimStart(Tail(s)) ELSE s

RECURSIVE TrimEnd(_)
TrimEnd(s) ==
  IF s # <<>> /\ IsWhite(s[Len(s)]) THEN TrimEnd(SubSeq(s, 1, Len(s) - 1)) ELSE s

\* String.prototype.trim
Trim(s) == TrimEnd(TrimStart(s))

\* String.prototype.toLowerCase on one code point
LowerChar(c) ==
  CASE c = "A" -> "a"
    [] c = "KELVIN" -> "k"
    [] OTHER -> c

toLowerCase(s) == [i \in 1..Len(s) |-> LowerChar(s[i])]

\* value === null || undefined ? '' : String(value); the parser yields strings
safeCellText(value) == value

\* s.replace(/^\uFEFF/, '')
stripLeadingBom(s) ==
  IF s # <<>> /\ Head(s) = "BOM" THEN Tail(s) ELSE s

\* s.replace(/\r\n|\r/g, '\n')
RECURSIVE normalizeNewlines(_)
normalizeNewlines(s) ==
  IF s = <<>> THEN <<>>
  ELSE IF Head(s) = "CR"
       THEN IF Len(s) >= 2 /\ s[2] = "LF"
            THEN <<"LF">> \o normalizeNewlines(SubSeq(s, 3, Len(s)))
            ELSE <<"LF">> \o normalizeNewlines(Tail(s))
       ELSE <<Head(s)>> \o normalizeNewlines(Tail(s))

(* ------------------------ normalizeHeaderValue ------------------------ *)

\* replace(/\s+/g, '_'): every maximal run of whitespace becomes one "_"
RECURSIVE replaceWhitespaceRuns(_)
replaceWhitespaceRuns(s) ==
  IF s = <<>> THEN <<>>
  ELSE IF IsWhite(Head(s))
       THEN <<"_">> \o replaceWhitespaceRuns(TrimStart(s))
       ELSE <<Head(s)>> \o replaceWhitespaceRuns(Tail(s))

\* the class [a-z0-9_] over the code points of the model
IsWordChar(c) == c \in {"a", "b", "c", "k", "1", "2", "_"}

\* replace(/[^a-z0-9_]/g, '_')
replaceNonWord(s) ==
  [i \in 1..Len(s) |-> IF IsWordChar(s[i]) THEN s[i] ELSE "_"]

\* replace(/_+/g, '_')
RECURSIVE collapseUnderscores(_)
collapseUnderscores(s) ==
  IF s = <<>> THEN <<>>
  ELSE IF Head(s) = "_" /\ Len(s) >= 2 /\ s[2] = "_"
       THEN collapseUnderscores(Tail(s))
       ELSE <<Head(s)>> \o collapseUnderscores(Tail(s))

RECURSIVE stripLeadingUnderscores(_)
stripLeadingUnderscores(s) ==
  IF s # <<>> /\ Head(s) = "_" THEN stripLeadingUnderscores(Tail(s)) ELSE s

RECURSIVE stripTrailingUnderscores(_)
stripTrailingUnderscores(s) ==
  IF s # <<>> /\ s[Len(s)] = "_"
  THEN stripTrailingUnderscores(SubSeq(s, 1, Len(s) - 1))
  ELSE s

\* replace(/^_+|_+$/g, '')
stripEdgeUnderscores(s) == stripTrailingUnderscores(stripLeadingUnderscores(s))

\* the mutant of normalizeHeaderValue: the edge underscores are stripped
\* before the other replacements instead of after them
normalizeHeaderValue_stripFirst(value) ==
  LET raw == toLowerCase(Trim(safeCellText(value)))
  IN IF raw = <<>> THEN <<>>
     ELSE collapseUnderscores(replaceNonWord(replaceWhitespaceRuns(
            stripEdgeUnderscores(raw))))

normalizeHeaderValue(value) ==
  LET raw == toLowerCase(Trim(safeCellText(value)))
  IN IF raw = <<>> THEN <<>>
     ELSE stripEdgeUnderscores(collapseUnderscores(replaceNonWord(
            replaceWhitespaceRuns(raw))))

(* ----------------------------- cleanData ------------------------------ *)

\* the five toggles cleanData reads from the option checkboxes
Options ==
  [trim : BOOLEAN, removeEmpty : BOOLEAN, fixColumns : BOOLEAN,
   dedupe : BOOLEAN, normalizeHeader : BOOLEAN]

ZeroStats ==
  [removedEmpty |-> 0, duplicatesRemoved |-> 0,
   trimmedColumns |-> 0, paddedColumns |-> 0]

\* Step 1: data[0][0] = data[0][0].replace(/^\uFEFF/, '') on the clone
stripBomResidue(data) ==
  IF data # <<>> /\ data[1] # <<>>
  THEN [data EXCEPT ![1][1] = stripLeadingBom(data[1][1])]
  ELSE data

\* the value of state.originalData once cleanData has run: Step 1 writes into
\* `data`, which is a clone (rows copied by spread), never into the original
originalAfterClean_noClone(original) == stripBomResidue(original)

originalAfterClean(original) == original

\* the row.map callback of Step 2
cleanCell(cell, options) ==
  LET value == normalizeNewlines(safeCellText(cell))
  IN IF options.trim THEN Trim(value) ELSE value

cleanRow(row, options) == [c \in 1..Len(row) |-> cleanCell(row[c], options)]

\* the mutant of isEmptyRow: the cells are compared with '' without trimming
isEmptyRow_noTrim(newRow) ==
  \A c \in 1..Len(newRow) : safeCellText(newRow[c]) = <<>>

\* newRow.every((cell) => safeCellText(cell).trim() === '')
isEmptyRow(newRow) ==
  \A c \in 1..Len(newRow) : Trim(safeCellText(newRow[c])) = <<>>

\* Step 2, the loop over data: [rows |-> cleanedRows, removed |-> removedEmpty]
RECURSIVE removeEmptyRows(_, _, _)
removeEmptyRows(data, i, options) ==
  IF i > Len(data) THEN [rows |-> <<>>, removed |-> 0]
  ELSE LET newRow == cleanRow(data[i], options)
           rest == removeEmptyRows(data, i + 1, options)
       IN IF options.removeEmpty /\ isEmptyRow(newRow)
          THEN [rows |-> rest.rows, removed |-> rest.removed + 1]
          ELSE [rows |-> <<newRow>> \o rest.rows, removed |-> rest.removed]

\* new Array(n).fill('')
emptyCells(n) == [k \in 1..n |-> <<>>]

\* the mutant of fixRow: a short row is left as it is, not padded
fixRow_noPad(row, expectedCols) ==
  IF Len(row) > expectedCols THEN SubSeq(row, 1, expectedCols) ELSE row

\* Step 3, one row: slice(0, expectedCols), or concat of empty strings
fixRow(row, expectedCols) ==
  IF Len(row) = expectedCols THEN row
  ELSE IF Len(row) > expectedCols THEN SubSeq(row, 1, expectedCols)
  ELSE row \o emptyCells(expectedCols - Len(row))

\* Step 3, the loop from row i on: [rows, trimmed, padded]
RECURSIVE fixFrom(_, _, _)
fixFrom(cleanedRows, i, expectedCols) ==
  IF i > Len(cleanedRows) THEN [rows |-> <<>>, trimmed |-> 0, padded |-> 0]
  ELSE LET row == cleanedRows[i]
           diff == Len(row) - expectedCols
           rest == fixFrom(cleanedRows, i + 1, expectedCols)
       IN [rows |-> <<fixRow(row, expectedCols)>> \o rest.rows,
           trimmed |-> rest.trimmed + (IF diff > 0 THEN 1 ELSE 0),
           padded |-> rest.padded + (IF diff < 0 THEN 1 ELSE 0)]

\* Step 3: expectedCols is the length of the first surviving row
fixColumns(cleanedRows, options) ==
  IF ~options.fixColumns
  THEN [rows |-> cleanedRows, trimmed |-> 0, padded |-> 0]
  ELSE fixFrom(cleanedRows, 1, Len(cleanedRows[1]))

\* Step 4: finalRows[0] = header.map(normalizeHeaderValue)
normalizeHeaderRow(finalRows, options) ==
  IF options.normalizeHeader
  THEN [finalRows EXCEPT ![1] =
          [c \in 1..Len(finalRows[1]) |-> normalizeHeaderValue(finalRows[1][c])]]
  ELSE finalRows

\* row.join('\u0001')
RECURSIVE rowKey(_)
rowKey(row) ==
  IF row = <<>> THEN <<>>
  ELSE IF Len(row) = 1 THEN row[1]
  ELSE row[1] \o <<"SOH">> \o rowKey(Tail(row))

\* Step 5, the loop from i on with the keys seen so far:
\* [rows |-> rows pushed to deduped, removed |-> duplicatesRemoved]
RECURSIVE dedupeFrom(_, _, _)
dedupeFrom(finalRows, i, seen) ==
  IF i > Len(finalRows) THEN [rows |-> <<>>, removed |-> 0]
  ELSE LET key == rowKey(finalRows[i])
       IN IF key \in seen
          THEN LET rest == dedupeFrom(finalRows, i + 1, seen)
               IN [rows |-> rest.rows, removed |-> rest.removed + 1]
          ELSE LET rest == dedupeFrom(finalRows, i + 1, seen \cup {key})
               IN [rows |-> <<finalRows[i]>> \o rest.rows, removed |-> rest.removed]

\* the mutant of dedupeRows: the header's key is not put into the seen set
dedupeRows_noSeed(finalRows, options) ==
  IF ~options.dedupe THEN [rows |-> finalRows, removed |-> 0]
  ELSE LET d == dedupeFrom(finalRows, 2, {})
       IN [rows |-> <<finalRows[1]>> \o d.rows, removed |-> d.removed]

\* Step 5: the header's key is seeded, the header row is pushed first
dedupeRows(finalRows, options) ==
  IF ~options.dedupe THEN [rows |-> finalRows, removed |-> 0]
  ELSE LET d == dedupeFrom(finalRows, 2, {rowKey(finalRows[1])})
       IN [rows |-> <<finalRows[1]>> \o d.rows, removed |-> d.removed]

\* cleanData as a function of state.originalData and the options: what it
\* throws, its locals after each step, and the stats object
\*   threw: "none", "nodata" (No CSV data to clean), "allremoved"
cleanData(original, options) ==
  IF IsNull(original) \/ Val(original) = <<>>
  THEN [threw |-> "nodata", cleanedRows |-> <<>>, fixedRows |-> <<>>,
        headerRows |-> <<>>, finalRows |-> <<>>, stats |-> ZeroStats]
  ELSE LET data == stripBomResidue(Val(original))
           s2 == removeEmptyRows(data, 1, options)
       IN IF s2.rows = <<>>
          THEN [threw |-> "allremoved", cleanedRows |-> <<>>, fixedRows |-> <<>>,
                headerRows |-> <<>>, finalRows |-> <<>>,
                stats |-> [ZeroStats EXCEPT !.removedEmpty = s2.removed]]
          ELSE LET s3 == fixColumns(s2.rows, options)
                   s4 == normalizeHeaderRow(s3.rows, options)
                   s5 == dedupeRows(s4, options)
               IN [threw |-> "none", cleanedRows |-> s2.rows,
                   fixedRows |-> s3.rows, headerRows |-> s4,
                   finalRows |-> s5.rows,
                   stats |-> [removedEmpty |-> s2.removed,
                              duplicatesRemoved |-> s5.removed,
                              trimmedColumns |-> s3.trimmed,
                              paddedColumns |-> s3.padded]]

(* ------------------------------ inputs -------------------------------- *)

\* the rows an uploaded grid of the cleaning-engine specification is made of:
\* one to three cells, with blank cells, cells that differ only by
\* surrounding whitespace or case, a leading BOM, CR LF inside a cell, and
\* cells that hold the key separator U+0001
RowPool ==
  { << <<"BOM", "A">> >>,
    << <<"a">> >>,
    << <<"SP", "a">> >>,
    << <<"SP">>, <<>> >>,
    << <<"a">>, <<>> >>,
    << <<"a", "SOH">>, <<>> >>,
    << <<"a">>, <<"SOH">> >>,
    << <<"a">>, <<"CR", "LF">>, <<"b">> >> }

RECURSIVE GridsOfLen(_)
GridsOfLen(n) ==
  IF n = 0 THEN {<<>>}
  ELSE {<<r>> \o g : r \in RowPool, g \in GridsOfLen(n - 1)}

\* the parser resolves with at least one row (parseCsvText rejects otherwise)
Grids == UNION {GridsOfLen(n) : n \in 1..MaxRows}

\* the files of the application specification: what reading and parsing
\* each one yields
\*   a.csv: a BOM before the header, a data row equal to the header but for
\*          its case, and a duplicate of that row
\*   b.csv: nothing but blank rows, decoded as windows-1252 with invalid
\*          characters
\*   c.csv: the parser rejects it (empty or invalid)
\*   d.csv: larger than 20 MB and the FileReader fails
FileA ==
  [name |-> "a", large |-> FALSE, readable |-> TRUE, encoding |-> "utf-8",
   issues |-> FALSE,
   parsed |-> Some(<< << <<"BOM", "A">> >>, << <<"a">> >>, << <<"a">> >> >>)]
FileB ==
  [name |-> "b", large |-> FALSE, readable |-> TRUE, encoding |-> "windows-1252",
   issues |-> TRUE,
   parsed |-> Some(<< << <<"SP">> >>, << <<>> >> >>)]
FileC ==
  [name |-> "c", large |-> FALSE, readable |-> TRUE, encoding |-> "utf-8",
   issues |-> FALSE, parsed |-> Null]
FileD ==
  [name |-> "d", large |-> TRUE, readable |-> FALSE, encoding |-> "utf-8",
   issues |-> FALSE, parsed |-> Null]

Files == {FileA, FileB, FileC, FileD}

(* ------------------------------- state -------------------------------- *)

VARIABLES
  file,              \* state.file: the selected file, or Null
  encodingUsed,      \* state.encodingUsed
  encodingHasIssues, \* state.encodingHasIssues
  originalData,      \* state.originalData: Some(grid) or Null
  cleanedData,       \* state.cleanedData: Some(grid) or Null
  rowsBefore,        \* state.rowsBefore
  rowsAfter,         \* state.rowsAfter
  lastStats,         \* state.lastStats: Some(stats) or Null
  cleanDisabled,     \* cleanButton.disabled
  downloadDisabled,  \* downloadButton.disabled
  errorBox,          \* the message showError left in errorBox, "" when hidden
  uploads,           \* the handleFileChange runs suspended at an await, oldest first
  timers,            \* the deferred clean callbacks not yet run
  out,               \* the download the last step emitted, or Null
  lastOp,            \* the handler or callback that ran last
  run,               \* history: the cleanData call of the last step, or Null
  hist,              \* since the last upload event: a parse, a clean succeeded
  startOutputs,      \* history: the outputs held before the latest upload event
  failed,            \* the upload run whose failure the last step handled, or Null
  buffer,            \* encoding resolver: the bytes read from the file
  throwing,          \* encoding resolver: the decode attempts that throw
  best,              \* encoding resolver: what the promise settled with, or Null
  headerIn,          \* normalizeHeaderValue: the cell value passed
  headerOut          \* normalizeHeaderValue: the results of one and two passes

appVars ==
  <<file, encodingUsed, encodingHasIssues, originalData, cleanedData,
    rowsBefore, rowsAfter, lastStats, cleanDisabled, downloadDisabled,
    errorBox, uploads, timers, out, lastOp, run, hist, startOutputs, failed>>
encVars == <<buffer, throwing, best>>
headerVars == <<headerIn, headerOut>>
vars == <<appVars, encVars, headerVars>>

\* the fields a pipeline run produces
outputs == <<originalData, cleanedData, rowsAfter, lastStats>>

\* the state object as constructed (lines 36-46); the disabled attributes of
\* the two buttons come from the page, which is not part of the script
AppInit ==
  /\ file = Null
  /\ encodingUsed = "utf-8"
  /\ encodingHasIssues = FALSE
  /\ originalData = Null
  /\ cleanedData = Null
  /\ rowsBefore = 0
  /\ rowsAfter = 0
  /\ lastStats = Null
  /\ cleanDisabled \in BOOLEAN
  /\ downloadDisabled \in BOOLEAN
  /\ errorBox = ""
  /\ uploads = <<>>
  /\ timers = 0
  /\ out = Null
  /\ lastOp = "init"
  /\ run = Null
  /\ hist = [parsed |-> Null, cleaned |-> FALSE]
  /\ startOutputs = <<Null, Null, 0, Null>>
  /\ failed = Null

EncIdle == buffer = <<>> /\ throwing = {} /\ best = Null
HeaderIdle == headerIn = <<>> /\ headerOut = Null

(* ----------------------------- handlers ------------------------------- *)

RemoveAt(seq, i) == SubSeq(seq, 1, i - 1) \o SubSeq(seq, i + 1, Len(seq))

\* setLoading(false), lines 85-86: a button is enabled when its data is held
enableClean(original, disabled) == IF IsNull(original) THEN disabled ELSE FALSE
enableDownload(cleaned, disabled) == IF IsNull(cleaned) THEN disabled ELSE FALSE

\* the mutant of uploadReset: state.cleanedData is not cleared on a new upload
uploadReset_keepCleaned(cleaned) == cleaned

\* handleFileChange, line 491: state.cleanedData = null
uploadReset(cleaned) == Null

\* handleFileChange up to its first await, for a selected file f
handleFileChange(f) ==
  /\ Len(uploads) < MaxUploads
  /\ errorBox' = IF f.large THEN "large" ELSE ""
  /\ rowsBefore' = 0
  /\ rowsAfter' = 0
  /\ lastStats' = Null
  /\ originalData' = Null
  /\ cleanedData' = uploadReset(cleanedData)
  /\ cleanDisabled' = TRUE
  /\ downloadDisabled' = TRUE
  /\ file' = Some(f.name)
  /\ uploads' = Append([i \in 1..Len(uploads) |->
                           [uploads[i] EXCEPT !.latest = FALSE]],
                        [file |-> f, stage |-> "reading", latest |-> TRUE])
  /\ out' = Null
  /\ lastOp' = "uploadStart"
  /\ hist' = [parsed |-> Null, cleaned |-> FALSE]
  /\ failed' = Null
  /\ UNCHANGED <<encodingUsed, encodingHasIssues, timers>>

\* handleFileChange when the chooser holds no file (lines 498-503)
handleFileChangeNoFile ==
  /\ errorBox' = ""
  /\ rowsBefore' = 0
  /\ rowsAfter' = 0
  /\ lastStats' = Null
  /\ originalData' = Null
  /\ cleanedData' = uploadReset(cleanedData)
  /\ cleanDisabled' = TRUE
  /\ downloadDisabled' = TRUE
  /\ file' = Null
  /\ out' = Null
  /\ lastOp' = "uploadNone"
  /\ hist' = [parsed |-> Null, cleaned |-> FALSE]
  /\ failed' = Null
  /\ UNCHANGED <<encodingUsed, encodingHasIssues, uploads, timers>>

\* the catch and finally blocks of handleFileChange (lines 555-561)
uploadFailed(i, op) ==
  /\ errorBox' = "upload"
  /\ cleanDisabled' = enableClean(originalData, cleanDisabled)
  /\ downloadDisabled' = enableDownload(cleanedData, downloadDisabled)
  /\ uploads' = RemoveAt(uploads, i)
  /\ out' = Null
  /\ lastOp' = op
  /\ UNCHANGED <<file, encodingUsed, encodingHasIssues, originalData,
                 cleanedData, rowsBefore, rowsAfter, lastStats, timers, hist>>
  /\ failed' = Some([upload |-> uploads[i], held |-> outputs])

\* readFileWithBestEncoding resolves for run i (lines 518-530)
readDone(i) ==
  /\ uploads[i].stage = "reading"
  /\ uploads[i].file.readable
  /\ encodingUsed' = uploads[i].file.encoding
  /\ encodingHasIssues' = uploads[i].file.issues
  /\ uploads' = [uploads EXCEPT ![i].stage = "parsing"]
  /\ out' = Null
  /\ lastOp' = "readDone"
  /\ UNCHANGED <<file, originalData, cleanedData, rowsBefore, rowsAfter,
                 lastStats, cleanDisabled, downloadDisabled, errorBox, timers,
                 hist>>
  /\ failed' = Null

\* readFileWithBestEncoding rejects for run i (reader.onerror)
readFail(i) ==
  /\ uploads[i].stage = "reading"
  /\ ~uploads[i].file.readable
  /\ uploadFailed(i, "readFail")

\* parseCsvText resolves for run i (lines 532-554, 559-561)
parseDone(i) ==
  /\ uploads[i].stage = "parsing"
  /\ ~IsNull(uploads[i].file.parsed)
  /\ originalData' = uploads[i].file.parsed
  /\ rowsBefore' = Len(Val(uploads[i].file.parsed))
  /\ cleanDisabled' = FALSE
  /\ downloadDisabled' = enableDownload(cleanedData, downloadDisabled)
  /\ uploads' = RemoveAt(uploads, i)
  /\ out' = Null
  /\ lastOp' = "parseDone"
  /\ hist' = [hist EXCEPT !.parsed = uploads[i].file.parsed]
  /\ UNCHANGED <<file, encodingUsed, encodingHasIssues, cleanedData, rowsAfter,
                 lastStats, errorBox, timers>>
  /\ failed' = Null

\* parseCsvText rejects for run i
parseFail(i) ==
  /\ uploads[i].stage = "parsing"
  /\ IsNull(uploads[i].file.parsed)
  /\ uploadFailed(i, "parseFail")

\* handleCleanClick: a click on the enabled clean button
handleCleanClick ==
  /\ ~cleanDisabled
  /\ out' = Null
  /\ IF IsNull(originalData)
     THEN /\ errorBox' = "upload first"
          /\ lastOp' = "cleanRefused"
          /\ UNCHANGED <<cleanDisabled, downloadDisabled, timers>>
     ELSE /\ timers < MaxTimers
          /\ errorBox' = ""
          /\ cleanDisabled' = TRUE
          /\ downloadDisabled' = TRUE
          /\ timers' = timers + 1
          /\ lastOp' = "cleanClick"
  /\ UNCHANGED <<file, encodingUsed, encodingHasIssues, originalData,
                 cleanedData, rowsBefore, rowsAfter, lastStats, uploads, hist>>
  /\ failed' = Null

\* the mutant of cleanWrites: the stats object is stored before the throw
cleanWrites_statsFirst(held, res) ==
  IF res.threw = "none"
  THEN <<Some(res.finalRows), Len(res.finalRows), Some(res.stats)>>
  ELSE IF res.threw = "allremoved" THEN <<held[1], held[2], Some(res.stats)>>
  ELSE held

\* lines 422-424: what cleanData leaves in <<cleanedData, rowsAfter,
\* lastStats>>, the three assignments being its last statements
cleanWrites(held, res) ==
  IF res.threw = "none"
  THEN <<Some(res.finalRows), Len(res.finalRows), Some(res.stats)>>
  ELSE held

\* the callback handleCleanClick deferred (lines 575-592), the checkboxes
\* standing at `options` when it runs
cleanCallback(options) ==
  /\ timers > 0
  /\ \E res \in {cleanData(originalData, options)} :
     \E w \in {cleanWrites(<<cleanedData, rowsAfter, lastStats>>, res)} :
     /\ timers' = timers - 1
     /\ originalData' = IF res.threw = "nodata" THEN originalData
                         ELSE Some(originalAfterClean(Val(originalData)))
     /\ cleanedData' = w[1]
     /\ rowsAfter' = w[2]
     /\ lastStats' = w[3]
     /\ errorBox' = IF res.threw = "none" THEN errorBox ELSE res.threw
     /\ cleanDisabled' = enableClean(originalData', cleanDisabled)
     /\ downloadDisabled' = IF res.threw = "none" THEN FALSE
                             ELSE enableDownload(w[1], downloadDisabled)
     /\ out' = Null
     /\ lastOp' = IF res.threw = "none" THEN "cleanOk" ELSE "cleanFail"
     /\ failed' = Null
     /\ hist' = IF res.threw = "none" THEN [hist EXCEPT !.cleaned = TRUE] ELSE hist
     /\ UNCHANGED <<file, encodingUsed, encodingHasIssues, rowsBefore, uploads>>

\* downloadCleanedCsv, lines 430-437: the message of the early return, or ""
downloadRefused(cleaned, selected) ==
  IF IsNull(cleaned) \/ Val(cleaned) = <<>> THEN "nothing"
  ELSE IF IsNull(selected) THEN "no file"
  ELSE ""

\* handleDownloadClick: a click on the enabled download button; the download
\* is named after state.file and carries state.cleanedData
handleDownloadClick ==
  LET refused == downloadRefused(cleanedData, file)
  IN /\ ~downloadDisabled
     /\ errorBox' = refused
     /\ out' = IF refused = "" THEN Some([name |-> <<"cleaned_", Val(file)>>,
                                            rows |-> Val(cleanedData)])
                ELSE Null
     /\ lastOp' = IF refused = "" THEN "download" ELSE "downloadRefused"
     /\ UNCHANGED <<file, encodingUsed, encodingHasIssues, originalData,
                    cleanedData, rowsBefore, rowsAfter, lastStats, cleanDisabled,
                    downloadDisabled, uploads, timers, hist>>
     /\ failed' = Null

(* -------------------- the application specification ------------------- *)

\* the variables the program's handlers write; `run` and `startOutputs` are
\* history variables, kept by the steps of each specification
Init == AppInit /\ EncIdle /\ HeaderIdle

\* what a step that is no cleanData call leaves in the history variables
NoLog == run' = Null /\ UNCHANGED <<startOutputs, encVars, headerVars>>

\* the cleanData call of the callback in brief: its input and the outputs
\* held before it
briefLog ==
  [input |-> originalData, held |-> <<cleanedData, rowsAfter, lastStats>>]

\* the steps of the page: events, promise settlements and the timer
FileChosen == (\E f \in Files : handleFileChange(f)) /\ NoLog
FileCleared == handleFileChangeNoFile /\ NoLog
ReadResolved == (\E i \in 1..Len(uploads) : readDone(i)) /\ NoLog
ReadRejected == (\E i \in 1..Len(uploads) : readFail(i)) /\ NoLog
ParseResolved == (\E i \in 1..Len(uploads) : parseDone(i)) /\ NoLog
ParseRejected == (\E i \in 1..Len(uploads) : parseFail(i)) /\ NoLog
CleanClicked == handleCleanClick /\ NoLog
CleanTimer ==
  /\ \E options \in Options :
       cleanCallback(options) /\ run' = Some(briefLog)
  /\ UNCHANGED <<startOutputs, encVars, headerVars>>
DownloadClicked == handleDownloadClick /\ NoLog

Next ==
  \/ FileChosen
  \/ FileCleared
  \/ ReadResolved
  \/ ReadRejected
  \/ ParseResolved
  \/ ParseRejected
  \/ CleanClicked
  \/ CleanTimer
  \/ DownloadClicked

Spec == Init /\ [][Next]_vars

(* --------- the application specification with the run history --------- *)

\* an upload event, the outputs held before it being recorded
LogStart == run' = Null /\ startOutputs' = outputs /\ UNCHANGED <<encVars, headerVars>>

FileChosenLogged == (\E f \in Files : handleFileChange(f)) /\ LogStart
FileClearedLogged == handleFileChangeNoFile /\ LogStart

RunsNext ==
  \/ FileChosenLogged
  \/ FileClearedLogged
  \/ ReadResolved
  \/ ReadRejected
  \/ ParseResolved
  \/ ParseRejected
  \/ CleanClicked
  \/ CleanTimer
  \/ DownloadClicked

SpecRuns == Init /\ [][RunsNext]_vars

(* ------------------ the cleaning-engine specification ----------------- *)

\* a grid has been parsed, the clean button clicked, the callback is pending
CleanInit ==
  /\ \E g \in Grids :
       /\ originalData = Some(g)
       /\ rowsBefore = Len(g)
       /\ hist = [parsed |-> Some(g), cleaned |-> FALSE]
  /\ file = Some("a")
  /\ encodingUsed = "utf-8"
  /\ encodingHasIssues = FALSE
  /\ cleanedData = Null
  /\ rowsAfter = 0
  /\ lastStats = Null
  /\ cleanDisabled = TRUE
  /\ downloadDisabled = TRUE
  /\ errorBox = ""
  /\ uploads = <<>>
  /\ timers = 1
  /\ out = Null
  /\ lastOp = "cleanClick"
  /\ run = Null
  /\ startOutputs = <<Null, Null, 0, Null>>
  /\ failed = Null
  /\ EncIdle
  /\ HeaderIdle

\* the cleanData call of the callback in full: the options it read and its
\* locals after each step as well
fullLog(options) ==
  LET res == cleanData(originalData, options)
  IN [input |-> originalData, held |-> <<cleanedData, rowsAfter, lastStats>>,
      threw |-> res.threw, options |-> options, res |-> res]

CleanTimerLogged ==
  /\ \E options \in Options :
       cleanCallback(options) /\ run' = Some(fullLog(options))
  /\ UNCHANGED <<startOutputs, encVars, headerVars>>

CleanNext == CleanTimerLogged

SpecClean == CleanInit /\ [][CleanNext]_vars

(* ------------------ the header-normalization specification ------------ *)

\* the code points header cells are drawn from
HeaderChars == {"a", "A", "1", "_", "-", "SP", "BOM", "KELVIN"}

RECURSIVE StringsOfLen(_, _)
StringsOfLen(chars, n) ==
  IF n = 0 THEN {<<>>}
  ELSE {<<c>> \o t : c \in chars, t \in StringsOfLen(chars, n - 1)}

StringsUpTo(chars, n) == UNION {StringsOfLen(chars, k) : k \in 0..n}

AppIdle ==
  /\ AppInit
  /\ cleanDisabled = TRUE
  /\ downloadDisabled = TRUE

HeaderInit ==
  /\ headerIn \in StringsUpTo(HeaderChars, MaxHeaderLen)
  /\ headerOut = Null
  /\ AppIdle
  /\ EncIdle

\* a header cell is normalized, and the result normalized again
NormalizeHeader ==
  /\ IsNull(headerOut)
  /\ headerOut' = Some([once |-> normalizeHeaderValue(headerIn),
                         twice |-> normalizeHeaderValue(
                                     normalizeHeaderValue(headerIn))])
  /\ UNCHANGED <<headerIn, appVars, encVars>>

HeaderNext == NormalizeHeader

SpecHeader == HeaderInit /\ [][HeaderNext]_vars

(* -------------------- the encoding-resolver specification ------------- *)

\* U+FFFD, the marker a non-fatal decoder substitutes and line 184 counts
ReplacementChar == 65533
\* U+FEFF, the byte order mark line 202 strips
BomCodePoint == 65279

\* const encodingsToTry
encodingsToTry == <<"utf-8", "windows-1252", "iso-8859-1">>

\* the bytes a buffer is drawn from: 0x41 (A), 0x80 (a continuation byte, the
\* euro sign in windows-1252), 0xC3 (the lead of a two-byte sequence), 0xEF
\* 0xBB 0xBF (the BOM in UTF-8), 0xFF (never valid in UTF-8)
ByteAlphabet == {65, 128, 195, 239, 187, 191, 255}

\* the UTF-8 decoder of the Encoding Standard, non-fatal: `needed` more
\* continuation bytes are awaited, the next one within lower..upper
RECURSIVE utf8Decode(_, _, _, _, _)
utf8Decode(bytes, needed, cp, lower, upper) ==
  IF bytes = <<>>
  THEN IF needed > 0 THEN <<ReplacementChar>> ELSE <<>>
  ELSE LET b == Head(bytes)
       IN IF needed = 0
          THEN IF b <= 127 THEN <<b>> \o utf8Decode(Tail(bytes), 0, 0, 128, 191)
               ELSE IF b >= 194 /\ b <= 223
                 THEN utf8Decode(Tail(bytes), 1, b % 32, 128, 191)
               ELSE IF b >= 224 /\ b <= 239
                 THEN utf8Decode(Tail(bytes), 2, b % 16,
                                 IF b = 224 THEN 160 ELSE 128,
                                 IF b = 237 THEN 159 ELSE 191)
               ELSE IF b >= 240 /\ b <= 244
                 THEN utf8Decode(Tail(bytes), 3, b % 8,
                                 IF b = 240 THEN 144 ELSE 128,
                                 IF b = 244 THEN 143 ELSE 191)
               ELSE <<ReplacementChar>> \o utf8Decode(Tail(bytes), 0, 0, 128, 191)
          ELSE IF b < lower \/ b > upper
               THEN <<ReplacementChar>> \o utf8Decode(bytes, 0, 0, 128, 191)
               ELSE IF needed = 1
                    THEN <<cp * 64 + (b % 64)>>
                           \o utf8Decode(Tail(bytes), 0, 0, 128, 191)
                    ELSE utf8Decode(Tail(bytes), needed - 1, cp * 64 + (b % 64),
                                    128, 191)

\* the single-byte decoder both legacy labels name (iso-8859-1 is a label of
\* windows-1252 in the Encoding Standard): every byte maps to a code point,
\* 0x80 to U+20AC, the bytes of ByteAlphabet from 0xA0 on to themselves
windows1252Decode(bytes) ==
  [i \in 1..Len(bytes) |-> IF bytes[i] = 128 THEN 8364 ELSE bytes[i]]

\* new TextDecoder(enc, { fatal: false }).decode(buffer); the UTF-8 decoder
\* drops one leading byte order mark (ignoreBOM is false)
decode(enc, bytes) ==
  IF enc = "utf-8"
  THEN LET text == utf8Decode(bytes, 0, 0, 128, 191)
       IN IF text # <<>> /\ Head(text) = BomCodePoint THEN Tail(text) ELSE text
  ELSE windows1252Decode(bytes)

\* (text.match(/\uFFFD/g) || []).length
replacementCount(text) ==
  Cardinality({i \in 1..Len(text) : text[i] = ReplacementChar})

\* let best, line 174: replacementCount is Null for Number.POSITIVE_INFINITY
initialBest == [text |-> <<>>, encoding |-> "utf-8", replacementCount |-> Null]

\* replacementCount < best.replacementCount
isBetter(count, bestCount) == IsNull(bestCount) \/ count < Val(bestCount)

\* the forEach over encodingsToTry from candidate k on; a candidate in
\* `unsupported` throws in the TextDecoder constructor and is skipped
RECURSIVE tryEncodings(_, _, _, _)
tryEncodings(bytes, unsupported, k, bestSoFar) ==
  IF k > Len(encodingsToTry) THEN bestSoFar
  ELSE LET enc == encodingsToTry[k]
       IN IF enc \in unsupported
          THEN tryEncodings(bytes, unsupported, k + 1, bestSoFar)
          ELSE LET text == decode(enc, bytes)
                   n == replacementCount(text)
               IN tryEncodings(bytes, unsupported, k + 1,
                    IF isBetter(n, bestSoFar.replacementCount)
                    THEN [text |-> text, encoding |-> enc,
                          replacementCount |-> Some(n)]
                    ELSE bestSoFar)

\* lines 193-199: the fallback is taken when best.text is the empty string
needsFallback(b) == b.text = <<>>

\* reader.onload, lines 173-206: the value the promise resolves with, and
\* whether the fallback branch ran
resolveEncoding(bytes, unsupported) ==
  LET picked == tryEncodings(bytes, unsupported, 1, initialBest)
      fell == needsFallback(picked)
      b == IF fell
           THEN [text |-> decode("utf-8", bytes), encoding |-> "utf-8",
                 replacementCount |->
                   Some(replacementCount(decode("utf-8", bytes)))]
           ELSE picked
  IN [text |-> IF b.text # <<>> /\ Head(b.text) = BomCodePoint
               THEN Tail(b.text) ELSE b.text,
      encoding |-> b.encoding,
      replacementCount |-> b.replacementCount,
      picked |-> picked,
      fallback |-> fell]

RECURSIVE BuffersOfLen(_)
BuffersOfLen(n) ==
  IF n = 0 THEN {<<>>}
  ELSE {<<b>> \o t : b \in ByteAlphabet, t \in BuffersOfLen(n - 1)}

\* every TextDecoder supports utf-8; a build without the legacy encodings
\* throws a RangeError for either of the two single-byte labels
EncInit ==
  /\ buffer \in UNION {BuffersOfLen(n) : n \in 0..MaxBytes}
  /\ throwing \in SUBSET {"windows-1252", "iso-8859-1"}
  /\ best = Null
  /\ AppIdle
  /\ HeaderIdle

\* the FileReader has loaded the buffer: reader.onload runs
ReaderLoaded ==
  /\ IsNull(best)
  /\ best' = Some(resolveEncoding(buffer, throwing))
  /\ UNCHANGED <<buffer, throwing, appVars, headerVars>>

EncNext == ReaderLoaded

SpecEnc == EncInit /\ [][EncNext]_vars

(* ------------------------------- claims ------------------------------- *)

\* the last step was the deferred callback, and cleanData got past line 311
Cleaned == lastOp = "cleanOk"
CleanRan == lastOp \in {"cleanOk", "cleanFail"} /\ Val(run).threw # "nodata"

\* a cell that holds nothing but whitespace code points
BlankCell(cell) == \A k \in 1..Len(cell) : IsWhite(cell[k])
BlankRow(row) == \A c \in 1..Len(row) : BlankCell(row[c])
NotBlankRow(row) == ~BlankRow(row)

\* C1: with fixColumns enabled, every row of the cleaned grid has the length
\* of the first row that survived empty-row removal; the reconciliation step
\* maps each surviving row to itself, to its first expectedCols cells, or to
\* itself followed by empty strings only; and trimmedColumns and
\* paddedColumns count the longer and the shorter rows, so that with the rows
\* of equal length they add up to the rows that survived
C1_ColumnReconciliation ==
  (Cleaned /\ Val(run).options.fixColumns) =>
    LET survived == Val(run).res.cleanedRows
        fixed == Val(run).res.fixedRows
        expected == Len(survived[1])
        longer == {i \in 1..Len(survived) : Len(survived[i]) > expected}
        shorter == {i \in 1..Len(survived) : Len(survived[i]) < expected}
        equal == {i \in 1..Len(survived) : Len(survived[i]) = expected}
    IN /\ \A i \in 1..Len(Val(cleanedData)) : Len(Val(cleanedData)[i]) = expected
       /\ Len(fixed) = Len(survived)
       /\ \A i \in equal : fixed[i] = survived[i]
       /\ \A i \in longer : fixed[i] = SubSeq(survived[i], 1, expected)
       /\ \A i \in shorter :
            /\ Len(fixed[i]) = expected
            /\ SubSeq(fixed[i], 1, Len(survived[i])) = survived[i]
            /\ \A k \in (Len(survived[i]) + 1)..expected : fixed[i][k] = <<>>
       /\ Val(lastStats).trimmedColumns = Cardinality(longer)
       /\ Val(lastStats).paddedColumns = Cardinality(shorter)
       /\ Val(lastStats).trimmedColumns + Val(lastStats).paddedColumns
            + Cardinality(equal) = Len(survived)

\* a clean with fixColumns that cut one row and padded another
C1_Witness ==
  /\ Cleaned
  /\ Val(run).options.fixColumns
  /\ Val(lastStats).trimmedColumns > 0
  /\ Val(lastStats).paddedColumns > 0

\* the rows of `rows` that equal no earlier row, in their order
RECURSIVE firstOccurrences(_, _)
firstOccurrences(rows, i) ==
  IF i > Len(rows) THEN <<>>
  ELSE IF \E j \in 1..(i - 1) : rows[j] = rows[i]
       THEN firstOccurrences(rows, i + 1)
       ELSE <<rows[i]>> \o firstOccurrences(rows, i + 1)

\* C2: with dedupe enabled, a row of the grid as it stands before
\* deduplication is dropped exactly when it is cell-for-cell equal to an
\* earlier row, the kept rows keep their order, and duplicatesRemoved is the
\* number of rows dropped
C2_DedupExact ==
  (Cleaned /\ Val(run).options.dedupe) =>
    /\ Val(cleanedData) = firstOccurrences(Val(run).res.headerRows, 1)
    /\ Val(lastStats).duplicatesRemoved
         = Len(Val(run).res.headerRows) - Len(Val(cleanedData))

\* C4: with removeEmpty enabled the rows removed are exactly those whose cells
\* are all blank, whatever the trim toggle says, and removedEmpty counts
\* them; with removeEmpty disabled every row survives and removedEmpty is 0;
\* when no row survives cleanData throws before its later steps and leaves
\* cleanedData, rowsAfter and lastStats as they were
C4_EmptyRowRemoval ==
  CleanRan =>
    LET r == Val(run)
        input == Val(r.input)
        kept == IF r.options.removeEmpty THEN SelectSeq(input, NotBlankRow)
                ELSE input
    IN IF kept = <<>>
       THEN /\ lastOp = "cleanFail"
            /\ r.threw = "allremoved"
            /\ errorBox = "allremoved"
            /\ r.res.fixedRows = <<>> /\ r.res.headerRows = <<>>
            /\ r.res.finalRows = <<>>
            /\ <<cleanedData, rowsAfter, lastStats>> = r.held
       ELSE /\ lastOp = "cleanOk"
            /\ Len(r.res.cleanedRows) = Len(kept)
            /\ \A i \in 1..Len(kept) :
                 /\ Len(r.res.cleanedRows[i]) = Len(kept[i])
                 /\ \A c \in 1..Len(kept[i]) :
                      Trim(r.res.cleanedRows[i][c])
                        = Trim(normalizeNewlines(kept[i][c]))
            /\ Val(lastStats).removedEmpty = Len(input) - Len(kept)

\* a clean without trimming whose rows were all blank, and so failed
C4_Witness ==
  /\ lastOp = "cleanFail"
  /\ Val(run).threw = "allremoved"
  /\ Val(run).options.removeEmpty
  /\ ~Val(run).options.trim
  /\ Len(Val(run).input[1]) > 1

C10_HeaderSeeding ==
  (Cleaned /\ Val(run).options.dedupe) =>
    LET before == Val(run).res.headerRows
        after == Val(cleanedData)
        likeHeader == {i \in 2..Len(before) : before[i] = before[1]}
    IN /\ after[1] = before[1]
       /\ \A j \in 2..Len(after) : after[j] # after[1]
       /\ Val(lastStats).duplicatesRemoved >= Cardinality(likeHeader)
       /\ Len(after) <= Len(before) - Cardinality(likeHeader)

\* a clean with dedupe in which exactly one data row equalled the header
C10_Witness ==
  /\ Cleaned
  /\ Val(run).options.dedupe
  /\ Cardinality({i \in 2..Len(Val(run).res.headerRows) :
                    Val(run).res.headerRows[i] = Val(run).res.headerRows[1]}) = 1
  /\ Val(lastStats).duplicatesRemoved = 1

\* C3: whenever lastStats is set, the rows lost between rowsBefore and
\* rowsAfter are the empty rows and the duplicates the stats report
C3_NoSilentLoss ==
  ~IsNull(lastStats) =>
    rowsBefore - rowsAfter
      = Val(lastStats).removedEmpty + Val(lastStats).duplicatesRemoved

\* C5 as claimed: after the read or the parse of the latest upload run has
\* failed, the outputs are those held when that run started
C5_UploadFailureKeepsOutputs ==
  (~IsNull(failed) /\ Val(failed).upload.latest) => outputs = startOutputs

\* C5 as amended: a clean that throws leaves originalData, cleanedData,
\* rowsAfter and lastStats as they were when cleanData was called; an upload
\* run has cleared them (and zeroed rowsAfter) once its handler has started,
\* and the handling of its failed read or parse writes none of them
C5_RunAtomicity ==
  /\ lastOp = "cleanFail" =>
       /\ <<cleanedData, rowsAfter, lastStats>> = Val(run).held
       /\ originalData = Val(run).input
  /\ lastOp \in {"uploadStart", "uploadNone"} =>
       outputs = <<Null, Null, 0, Null>>
  /\ ~IsNull(failed) => outputs = Val(failed).held

\* a clean that failed while an earlier clean's result was held
C5_Witness ==
  /\ lastOp = "cleanFail"
  /\ ~IsNull(cleanedData)
  /\ ~IsNull(lastStats)

\* C6: a clean requested while no parsed grid is held fails with an error
\* and no cleanedData is written; a download requested while no clean has
\* succeeded since the last upload event reports an error and emits nothing;
\* an emitted download carries the result of a clean that succeeded, on the
\* grid of a parse that succeeded, since the last upload event
C6_InvalidStateGating ==
  /\ IsNull(originalData) <=> IsNull(hist.parsed)
  /\ IsNull(cleanedData) <=> ~hist.cleaned
  /\ hist.cleaned => ~IsNull(hist.parsed)
  /\ ~IsNull(originalData) => originalData = hist.parsed /\ Val(originalData) # <<>>
  /\ ~IsNull(cleanedData) => Val(cleanedData) # <<>>
  /\ lastOp = "cleanRefused" =>
       IsNull(originalData) /\ errorBox # "" /\ IsNull(cleanedData) /\ timers = 0
  /\ (lastOp \in {"cleanOk", "cleanFail"} /\ IsNull(Val(run).input)) =>
       lastOp = "cleanFail" /\ errorBox # "" /\ IsNull(cleanedData)
  /\ Cleaned => ~IsNull(Val(run).input) /\ Val(run).input = hist.parsed
  /\ (lastOp \in {"download", "downloadRefused"} /\ ~hist.cleaned) =>
       lastOp = "downloadRefused" /\ errorBox # "" /\ IsNull(out)
  /\ lastOp = "downloadRefused" => errorBox # "" /\ IsNull(out)
  /\ ~IsNull(out) =>
       /\ lastOp = "download"
       /\ hist.cleaned
       /\ ~IsNull(file)
       /\ Val(out).rows = Val(cleanedData)

\* a download was emitted
C6_Witness ==
  /\ lastOp = "download"
  /\ ~IsNull(out)
  /\ Len(Val(out).rows) > 0

\* the markers candidate enc leaves in the buffer, Null when it throws
markersOf(enc) ==
  IF enc \in throwing THEN Null ELSE Some(replacementCount(decode(enc, buffer)))

\* C8: the resolver returns the usable candidate with the fewest markers, the
\* earlier one on a tie; the fallback runs exactly when every candidate
\* throws; a result is returned for every buffer
C8_ResolverSelection ==
  ~IsNull(best) =>
    LET r == Val(best)
        usable == {k \in 1..Len(encodingsToTry) :
                     ~IsNull(markersOf(encodingsToTry[k]))}
    IN /\ r.fallback <=> usable = {}
       /\ usable # {} =>
            \E k \in usable :
              /\ r.encoding = encodingsToTry[k]
              /\ r.replacementCount = markersOf(encodingsToTry[k])
              /\ \A j \in usable :
                   /\ Val(markersOf(encodingsToTry[k]))
                        <= Val(markersOf(encodingsToTry[j]))
                   /\ j < k => Val(markersOf(encodingsToTry[j]))
                                 > Val(markersOf(encodingsToTry[k]))

\* the selection alone, without the sentence about the fallback
C8_SelectionOnly ==
  ~IsNull(best) =>
    LET r == Val(best)
        usable == {k \in 1..Len(encodingsToTry) :
                     ~IsNull(markersOf(encodingsToTry[k]))}
    IN \E k \in usable :
         /\ r.encoding = encodingsToTry[k]
         /\ r.replacementCount = markersOf(encodingsToTry[k])
         /\ \A j \in usable :
              /\ Val(markersOf(encodingsToTry[k]))
                   <= Val(markersOf(encodingsToTry[j]))
              /\ j < k => Val(markersOf(encodingsToTry[j]))
                            > Val(markersOf(encodingsToTry[k]))

\* the class [a-z0-9_], stated over the code points themselves
WordChars == {"a", "b", "c", "k", "1", "2", "_"}

\* C9: normalizing a header cell twice gives what normalizing it once gives,
\* and the result is empty or a string over [a-z0-9_] that neither begins
\* nor ends with an underscore and has no two underscores in a row
C9_HeaderIdempotent ==
  ~IsNull(headerOut) =>
    LET once == Val(headerOut).once
    IN /\ Val(headerOut).twice = once
       /\ \A k \in 1..Len(once) : once[k] \in WordChars
       /\ once # <<>> => once[1] # "_" /\ once[Len(once)] # "_"
       /\ \A k \in 1..(Len(once) - 1) : ~(once[k] = "_" /\ once[k + 1] = "_")

\* a cell whose normalization replaced, collapsed and stripped something
C9_Witness ==
  /\ ~IsNull(headerOut)
  /\ Val(headerOut).once = <<"a">>
  /\ Len(headerIn) = MaxHeaderLen
  /\ headerIn[1] = "-"

\* what parsing the file of that name yields, Null when it cannot be read or
\* parsed
parsedOf(name) == (CHOOSE f \in Files : f.name = name).parsed

\* the grid is a result of cleaning the file of that name under some options
cleanedFrom(rows, name) ==
  /\ ~IsNull(parsedOf(name))
  /\ \E options \in Options :
       LET res == cleanData(parsedOf(name), options)
       IN res.threw = "none" /\ res.finalRows = rows

\* C11: under every interleaving of uploads, the clean callback and
\* downloads, the held parsed grid, rowsBefore and the held cleaned grid
\* derive from the most recently selected file (state.file), and a download
\* carries that file's cleaned data under that file's name
C11_SupersessionWithoutRaces ==
  /\ ~IsNull(originalData) =>
       /\ ~IsNull(file)
       /\ originalData = parsedOf(Val(file))
       /\ rowsBefore = Len(Val(originalData))
  /\ ~IsNull(cleanedData) =>
       ~IsNull(file) /\ cleanedFrom(Val(cleanedData), Val(file))
  /\ ~IsNull(out) =>
       /\ ~IsNull(file)
       /\ Val(out).name = <<"cleaned_", Val(file)>>
       /\ cleanedFrom(Val(out).rows, Val(file))

====
